---- MODULE Spec2Model ----
(***************************************************************************)
(* CSVFileParser of chainer_chemistry/dataset/parsers/csv_file_parser.py.  *)
(*                                                                         *)
(* One parser object.  Its configuration is fixed by __init__; parse() is  *)
(* modelled as ParseBegin (lines 61-86), one ProcessRow per iteration of   *)
(* the row loop (lines 87-143) and Finish (lines 144-170), or as           *)
(* ParseOther, the whole call when the preprocessor is no MolPreprocessor. *)
(* get_smiles() is GetSmiles.                                              *)
(* LeaveParse is the caller going on after parse() returned or raised: the *)
(* locals of the call are gone and only the object's attributes remain.    *)
(***************************************************************************)
EXTENDS Integers, Sequences, FiniteSets, TLC

VARIABLES
    preprocessor,       \* self.preprocessor: "MolPreprocessor" or "Other"
    labels,             \* self.labels: None or Some(list of column names)
    postprocess_label,  \* self.postprocess_label: None or Some("fn")
    postprocess_fn,     \* self.postprocess_fn: None or Some("fn")
    smiles,             \* self.smiles: None or Some(list of strings)
    pc,                 \* "idle", "loop", "returned", "raised", "done"
    retain_smiles,      \* argument of the current / most recent parse()
    df,                 \* the table read from the file
    features,           \* None or Some(list of lists)
    total_count,
    fail_count,
    success_count,
    idx,                \* rows of df consumed by the loop so far
    result,             \* the assembled result, before postprocess_fn
    post_calls,         \* calls of postprocess_fn made by this parse()
    dataset,            \* the returned NumpyTupleDataset, or None
    exc,                \* exception that left parse(), "" if none
    got                 \* what the last get_smiles() did, None if not called

vars == <<preprocessor, labels, postprocess_label, postprocess_fn, smiles, pc,
          retain_smiles, df, features, total_count, fail_count, success_count,
          idx, result, post_calls, dataset, exc, got>>

config == <<preprocessor, labels, postprocess_label, postprocess_fn>>

\* Longest table read from a file.
MaxRows == 2

None == [some |-> FALSE]
Some(v) == [some |-> TRUE, v |-> v]

(***************************************************************************)
(* The collaborators parse() calls: rdkit and the preprocessor.            *)
(***************************************************************************)

\* The rows a file may hold: a SMILES cell and a label cell.
RowSet ==
    { [smiles |-> "CCO",            label |-> "1"],
      [smiles |-> "OCC",            label |-> "0"],
      [smiles |-> "c1ccccc1",       label |-> "1"],
      [smiles |-> "C=O",            label |-> "0"],
      [smiles |-> "not_a_molecule", label |-> "0"],
      [smiles |-> "nan",            label |-> "1"],
      [smiles |-> "[Xe]",           label |-> "0"],
      [smiles |-> "[H]OCC",         label |-> "1"] }

Tables == UNION { [1..n -> RowSet] : n \in 0..MaxRows }

\* A file: its header either holds the configured columns or lacks one.
Files ==
    { [header |-> "ok", rows |-> t] : t \in Tables }
    \cup { [header |-> h, rows |-> <<>>] : h \in {"no_smiles_col", "no_label_col"} }

\* Chem.MolFromSmiles: a molecule, None for an unparseable string, and an
\* exception for a cell that is no string (an empty cell reads as nan).
MolFromSmiles(s) ==
    CASE s = "CCO"      -> [status |-> "mol", mol |-> "ethanol"]
      [] s = "OCC"      -> [status |-> "mol", mol |-> "ethanol"]
      [] s = "c1ccccc1" -> [status |-> "mol", mol |-> "benzene"]
      [] s = "C=O"      -> [status |-> "mol", mol |-> "formaldehyde"]
      [] s = "[Xe]"     -> [status |-> "mol", mol |-> "xenon"]
      [] s = "[H]OCC"   -> [status |-> "mol", mol |-> "ethanol_Hs"]
      [] s = "nan"      -> [status |-> "raise", mol |-> ""]
      [] OTHER          -> [status |-> "none", mol |-> ""]

\* Chem.MolToSmiles
MolToSmiles(mol) ==
    CASE mol = "ethanol"    -> "CCO"
      [] mol = "benzene"    -> "c1ccccc1"
      [] mol = "formaldehyde" -> "C=O"
      [] mol = "xenon"      -> "[Xe]"
      [] mol = "ethanol_Hs" -> "[H]OCC"

\* pp.prepare_smiles_and_mol: the standardized SMILES and the molecule.  For
\* the molecule with explicit hydrogens the string is taken before the
\* hydrogens are added, so it differs from the molecule's own SMILES.
prepare_smiles_and_mol(mol) ==
    IF mol = "ethanol_Hs"
    THEN [standardized_smiles |-> "CCO", mol |-> mol]
    ELSE [standardized_smiles |-> MolToSmiles(mol), mol |-> mol]

FeatureValue(mol, part) == [kind |-> "feature", mol |-> mol, part |-> part]

\* pp.get_input_features: a single value, a tuple of values, or
\* MolFeatureExtractionError.
get_input_features(mol) ==
    CASE mol = "xenon" ->
            [status |-> "MolFeatureExtractionError", tuple |-> FALSE, vals |-> <<>>]
      [] mol = "formaldehyde" ->
            [status |-> "ok", tuple |-> TRUE,
             vals |-> <<FeatureValue(mol, 1), FeatureValue(mol, 2)>>]
      [] OTHER ->
            [status |-> "ok", tuple |-> FALSE, vals |-> <<FeatureValue(mol, 0)>>]

\* self.postprocess_label(labels)
PostLabel(ls) == [kind |-> "labels", vals |-> ls, post |-> TRUE]
RawLabel(ls) == [kind |-> "labels", vals |-> ls, post |-> FALSE]

\* pp.process(filepath) of a preprocessor that is no MolPreprocessor.
ProcessResults ==
    { [tuple |-> TRUE,
       items |-> << [dtype |-> "numeric", data |-> <<>>],
                    [dtype |-> "object", data |-> <<>>] >>],
      [tuple |-> FALSE,
       items |-> << [dtype |-> "numeric", data |-> <<>>] >>] }

(***************************************************************************)
(* parse(): the body of the row loop.                                      *)
(***************************************************************************)

\* labels = [row[i] for i in labels_index]
RowLabels(row) ==
    IF labels.some THEN [i \in 1..Len(labels.v) |-> row[labels.v[i]]] ELSE <<>>

RowFails(status, logged) ==
    [status |-> status, logged |-> logged, standardized_smiles |-> "",
     input_features |-> [status |-> "", tuple |-> FALSE, vals |-> <<>>],
     labels |-> RawLabel(<<>>)]

\* The try block of the loop body and its handlers: "ok" with what the
\* block computed, or the reason the row is skipped ("none": no molecule;
\* "MolFeatureExtractionError"; "Exception": any other exception, whose
\* type name is logged).
TryRow(row, retain) ==
    LET m == MolFromSmiles(row.smiles) IN
    IF m.status = "raise" THEN RowFails("Exception", "ArgumentError")
    ELSE IF m.status = "none" THEN RowFails("none", "")
    ELSE
      LET p == prepare_smiles_and_mol(m.mol)
          f == get_input_features(p.mol)
      IN IF f.status # "ok" THEN RowFails("MolFeatureExtractionError", "")
         ELSE IF retain /\ p.standardized_smiles # MolToSmiles(p.mol)
              THEN RowFails("Exception", "AssertionError")
         ELSE [status |-> "ok", logged |-> "",
               standardized_smiles |-> p.standardized_smiles,
               input_features |-> f,
               labels |-> IF postprocess_label.some
                          THEN PostLabel(RowLabels(row))
                          ELSE RawLabel(RowLabels(row))]

\* FailCountAfter without the fail_count += 1 of the `mol is None` branch
FailCountAfter_NoneUncounted(status, n) ==
    IF status \in {"ok", "none"} THEN n ELSE n + 1

\* fail_count after a row with this outcome
FailCountAfter(status, n) == IF status = "ok" THEN n ELSE n + 1

\* SmilesAfter with the append made before get_input_features is called
SmilesAfter_AppendBeforeExtraction(t, retain, smi) ==
    IF t.status \in {"ok", "MolFeatureExtractionError"} /\ retain
    THEN Some(Append(smi.v, t.standardized_smiles))
    ELSE smi

\* self.smiles after the try block of a row with outcome t
SmilesAfter(t, retain, smi) ==
    IF t.status = "ok" /\ retain
    THEN Some(Append(smi.v, t.standardized_smiles))
    ELSE smi

\* features = [[] for _ in range(num_features)]
InitFeatures(f) ==
    LET n0 == IF f.tuple THEN Len(f.vals) ELSE 1
        num_features == IF labels.some THEN n0 + 1 ELSE n0
    IN [i \in 1..num_features |-> <<>>]

Min(a, b) == IF a < b THEN a ELSE b

\* AppendFeatures that adds slots for a tuple longer than the slot list
AppendFeatures_Grows(feats, f, labs) ==
    LET n == Len(feats)
        k == IF f.tuple THEN Len(f.vals) ELSE 1
        m == IF k > n THEN k ELSE n
        withFeat == [i \in 1..m |->
                        IF i <= k
                        THEN Append(IF i <= n THEN feats[i] ELSE <<>>, f.vals[i])
                        ELSE feats[i]]
        withLab == IF labels.some
                   THEN [withFeat EXCEPT ![m] = Append(@, labs)]
                   ELSE withFeat
    IN [raised |-> FALSE, features |-> withLab]

\* The appends of one successful row to the slots feats.  An index past
\* the last slot raises IndexError after the earlier appends were made.
AppendFeatures(feats, f, labs) ==
    LET n == Len(feats)
        k == IF f.tuple THEN Len(f.vals) ELSE 1
        raised == k > n
        withFeat == [i \in 1..n |->
                        IF i <= Min(k, n) THEN Append(feats[i], f.vals[i])
                        ELSE feats[i]]
        withLab == IF labels.some /\ ~raised
                   THEN [withFeat EXCEPT ![n] = Append(@, labs)]
                   ELSE withFeat
    IN [raised |-> raised, features |-> withLab]

(***************************************************************************)
(* parse(): assembling and packaging the result.                           *)
(***************************************************************************)

NumAtoms(mol) ==
    CASE mol = "ethanol" -> 3 [] mol = "benzene" -> 6
      [] mol = "ethanol_Hs" -> 9 [] mol = "formaldehyde" -> 2
      [] OTHER -> 1

Shape(v) == IF v.kind = "feature" THEN NumAtoms(v.mol) ELSE Len(v.vals)

\* numpy.asarray(feature), or the object array of the same length when the
\* entries have different shapes
NumpyAsArray(feature) ==
    [dtype |-> IF \A i, j \in 1..Len(feature) :
                     /\ feature[i].kind = feature[j].kind
                     /\ Shape(feature[i]) = Shape(feature[j])
               THEN "numeric" ELSE "object",
     data |-> feature]

\* result = tuple(ret)
Assemble(feats) ==
    [tuple |-> TRUE, items |-> [i \in 1..Len(feats) |-> NumpyAsArray(feats[i])]]

\* self.postprocess_fn(...) with these positional arguments
PostFnCall(args) == [kind |-> "postprocess_fn", args |-> args]

\* The positional arguments postprocess_fn receives for result res
PostFnArgs(res) == IF res.tuple THEN res.items ELSE <<res.items[1]>>

\* Package that hands postprocess_fn the result as one argument always
Package_SingleArgument(res) ==
    IF postprocess_fn.some
    THEN [dataset |-> [star |-> res.tuple,
                       value |-> PostFnCall(IF res.tuple THEN <<res>>
                                            ELSE <<res.items[1]>>)],
          post_calls |-> 1]
    ELSE [dataset |-> [star |-> res.tuple, value |-> res], post_calls |-> 0]

\* Lines 163-170: the dataset returned for result res, and the number of
\* postprocess_fn calls made.  star: the constructor received *value.
Package(res) ==
    IF postprocess_fn.some
    THEN [dataset |-> [star |-> res.tuple, value |-> PostFnCall(PostFnArgs(res))],
          post_calls |-> 1]
    ELSE [dataset |-> [star |-> res.tuple, value |-> res], post_calls |-> 0]

\* SmilesAtStart that creates the list only when there is none yet
SmilesAtStart_KeepsOldList(retain, smi) ==
    IF retain /\ ~smi.some THEN Some(<<>>) ELSE smi

\* self.smiles after lines 63-64
SmilesAtStart(retain, smi) == IF retain THEN Some(<<>>) ELSE smi

(***************************************************************************)
(* The state machine.                                                      *)
(***************************************************************************)

Init ==
    /\ preprocessor \in {"MolPreprocessor", "Other"}
    /\ labels \in {None, Some(<<"label">>)}
    /\ postprocess_label \in {None, Some("fn")}
    /\ postprocess_fn \in {None, Some("fn")}
    /\ smiles = None
    /\ pc = "idle"
    /\ retain_smiles = FALSE
    /\ df = <<>>
    /\ features = None
    /\ total_count = 0
    /\ fail_count = 0
    /\ success_count = 0
    /\ idx = 0
    /\ result = None
    /\ post_calls = 0
    /\ dataset = None
    /\ exc = ""
    /\ got = None

\* No parse() is running: none was called yet, or the last one was left.
Quiescent == pc \in {"idle", "done"}

\* parse(filepath, retain_smiles) with a MolPreprocessor, up to the row
\* loop.  A file without a configured column raises KeyError in get_loc.
ParseBegin ==
    /\ Quiescent
    /\ preprocessor = "MolPreprocessor"
    /\ \E retain \in BOOLEAN, file \in Files :
          /\ retain_smiles' = retain
          /\ smiles' = SmilesAtStart(retain, smiles)
          /\ IF \/ file.header = "no_smiles_col"
                \/ file.header = "no_label_col" /\ labels.some
             THEN /\ pc' = "raised"
                  /\ exc' = "KeyError"
                  /\ df' = <<>>
                  /\ total_count' = 0
             ELSE /\ pc' = "loop"
                  /\ exc' = ""
                  /\ df' = file.rows
                  /\ total_count' = Len(file.rows)
    /\ features' = None
    /\ fail_count' = 0
    /\ success_count' = 0
    /\ idx' = 0
    /\ got' = None
    /\ UNCHANGED <<config, result, post_calls, dataset>>

\* parse(filepath, retain_smiles) with another preprocessor: the whole
\* call.  processed is what pp.process(filepath) returns.
ParseOther ==
    /\ Quiescent
    /\ preprocessor # "MolPreprocessor"
    /\ \E retain \in BOOLEAN, processed \in ProcessResults :
          /\ retain_smiles' = retain
          /\ smiles' = SmilesAtStart(retain, smiles)
          /\ result' = Some(processed)
          /\ post_calls' = Package(processed).post_calls
          /\ dataset' = Some(Package(processed).dataset)
    /\ pc' = "returned"
    /\ got' = None
    /\ UNCHANGED <<config, df, features, total_count, fail_count,
                   success_count, idx, exc>>

\* One iteration of the loop over df.itertuples().
ProcessRow ==
    /\ pc = "loop"
    /\ idx < total_count
    /\ LET t == TryRow(df[idx + 1], retain_smiles) IN
       /\ smiles' = SmilesAfter(t, retain_smiles, smiles)
       /\ fail_count' = FailCountAfter(t.status, fail_count)
       /\ IF t.status # "ok"
          THEN /\ idx' = idx + 1
               /\ UNCHANGED <<features, success_count, pc, exc>>
          ELSE LET a == AppendFeatures(
                          IF features.some THEN features.v
                          ELSE InitFeatures(t.input_features),
                          t.input_features, t.labels)
               IN /\ features' = Some(a.features)
                  /\ IF a.raised
                     THEN /\ pc' = "raised"
                          /\ exc' = "IndexError"
                          /\ UNCHANGED <<idx, success_count>>
                     ELSE /\ idx' = idx + 1
                          /\ success_count' = success_count + 1
                          /\ UNCHANGED <<pc, exc>>
    /\ UNCHANGED <<config, retain_smiles, df, total_count, result, post_calls,
                   dataset, got>>

\* After the loop: the arrays, postprocess_fn and the dataset.  Iterating
\* features while it is still None raises TypeError.
Finish ==
    /\ pc = "loop"
    /\ idx = total_count
    /\ IF features.some
       THEN /\ result' = Some(Assemble(features.v))
            /\ post_calls' = Package(Assemble(features.v)).post_calls
            /\ dataset' = Some(Package(Assemble(features.v)).dataset)
            /\ pc' = "returned"
            /\ exc' = ""
       ELSE /\ pc' = "raised"
            /\ exc' = "TypeError"
            /\ UNCHANGED <<result, post_calls, dataset>>
    /\ UNCHANGED <<config, smiles, retain_smiles, df, features, total_count,
                   fail_count, success_count, idx, got>>

\* get_smiles()
GetSmiles ==
    /\ Quiescent
    /\ got' = Some(IF smiles.some
                   THEN [warned |-> FALSE,
                         ret |-> Some([dtype |-> "str", data |-> smiles.v])]
                   ELSE [warned |-> TRUE, ret |-> None])
    /\ UNCHANGED <<config, smiles, pc, retain_smiles, df, features, total_count,
                   fail_count, success_count, idx, result, post_calls, dataset,
                   exc>>

\* parse() has returned or raised and the caller goes on: the locals of
\* the call are gone, self.smiles stays.
LeaveParse ==
    /\ pc \in {"returned", "raised"}
    /\ pc' = "done"
    /\ df' = <<>>
    /\ features' = None
    /\ total_count' = 0
    /\ fail_count' = 0
    /\ success_count' = 0
    /\ idx' = 0
    /\ result' = None
    /\ post_calls' = 0
    /\ dataset' = None
    /\ exc' = ""
    /\ UNCHANGED <<config, smiles, retain_smiles, got>>

Next ==
    \/ ParseBegin
    \/ ParseOther
    \/ ProcessRow
    \/ Finish
    \/ LeaveParse
    \/ GetSmiles

Spec == Init /\ [][Next]_vars

(***************************************************************************)
(* What the claims speak of, stated from the collaborators' answers alone. *)
(***************************************************************************)

MolPath == preprocessor = "MolPreprocessor"

Unparseable(row) == MolFromSmiles(row.smiles).status = "none"
Unexpected(row) == MolFromSmiles(row.smiles).status = "raise"
Prepared(row) == prepare_smiles_and_mol(MolFromSmiles(row.smiles).mol)
ExtractionError(row) ==
    /\ MolFromSmiles(row.smiles).status = "mol"
    /\ get_input_features(Prepared(row).mol).status = "MolFeatureExtractionError"
\* the row reaches the consistency check and the two strings differ
Inconsistent(row) ==
    /\ MolFromSmiles(row.smiles).status = "mol"
    /\ get_input_features(Prepared(row).mol).status = "ok"
    /\ Prepared(row).standardized_smiles # MolToSmiles(Prepared(row).mol)

FailingRow(row, retain) ==
    \/ Unparseable(row)
    \/ Unexpected(row)
    \/ ExtractionError(row)
    \/ retain /\ Inconsistent(row)

\* the positions in df of the rows that do not fail, in row order
SuccessfulRows ==
    SelectSeq([i \in 1..Len(df) |-> i],
              LAMBDA i : ~FailingRow(df[i], retain_smiles))

RowFeatures(row) == get_input_features(Prepared(row).mol)
RowArity(row) == IF RowFeatures(row).tuple THEN Len(RowFeatures(row).vals) ELSE 1

\* C1: on the MolPreprocessor path success_count + fail_count is the number
\* of rows processed so far, never more than total_count, and equals
\* total_count when parse() has returned.
C1_CountsPartitionRows ==
    (MolPath /\ pc \in {"loop", "returned", "raised"} /\ exc # "KeyError") =>
        /\ success_count + fail_count = idx
        /\ idx <= total_count
        /\ total_count = Len(df)
        /\ (pc = "returned" => success_count + fail_count = total_count)

C1_Witness ==
    /\ MolPath /\ pc = "returned"
    /\ total_count = 2 /\ fail_count = 1 /\ success_count = 1

\* C2: a parse() whose rows all failed (or that had no rows) returns
\* normally with an empty dataset and success_count = 0.
C2_AllRowsFailedStillReturns ==
    (MolPath /\ pc \in {"returned", "raised"} /\ exc # "KeyError"
       /\ idx = total_count /\ success_count = 0) =>
        /\ pc = "returned"
        /\ dataset.some

\* C3: get_smiles() returns the retained list exactly when the most recent
\* parse() had retain_smiles = True; otherwise it warns and returns None.
C3_GetSmilesFollowsLastParse ==
    got.some =>
        /\ got.v.ret.some <=> (pc # "idle" /\ retain_smiles)
        /\ got.v.warned <=> ~got.v.ret.some

\* C4: with retain_smiles a row whose standardized SMILES differs from the
\* molecule's SMILES halts parse(): the loop never moves past such a row.
C4_InconsistencyHaltsParse ==
    (MolPath /\ retain_smiles /\ pc \in {"loop", "returned", "raised"}) =>
        \A i \in 1..idx : ~Inconsistent(df[i])

\* C5: with retain_smiles, while the loop runs and when parse() has
\* returned, self.smiles holds one entry per successful row of this call,
\* in row order, each the standardized SMILES of its row.
C5_RetainedSmilesAreThisCallsSuccesses ==
    (MolPath /\ retain_smiles /\ pc \in {"loop", "returned"}) =>
        /\ smiles.some
        /\ Len(smiles.v) = success_count
        /\ \A k \in 1..Len(smiles.v) :
              /\ k <= Len(SuccessfulRows)
              /\ smiles.v[k] = Prepared(df[SuccessfulRows[k]]).standardized_smiles
        /\ (pc = "returned" => Len(smiles.v) = Len(SuccessfulRows))

C5_Witness ==
    /\ MolPath /\ retain_smiles /\ pc = "returned"
    /\ Len(df) = 2 /\ df[2].smiles = "OCC" /\ Unparseable(df[1])
    /\ smiles = Some(<<"CCO">>)

\* C6: after each successful record every accumulator has length
\* success_count; every array of the result has that leading dimension and
\* with labels configured the last array is the label array.
C6_AccumulatorsHaveSuccessCountEntries ==
    (MolPath /\ features.some /\ pc \in {"loop", "returned"}) =>
        /\ \A s \in 1..Len(features.v) : Len(features.v[s]) = success_count
        /\ (pc = "returned" =>
              /\ \A s \in 1..Len(result.v.items) :
                    Len(result.v.items[s].data) = success_count
              /\ (labels.some =>
                    \A k \in 1..success_count :
                        result.v.items[Len(result.v.items)].data[k].kind = "labels"))

\* C7: a failing row adds one to fail_count and leaves success_count, the
\* accumulators and the retained list as they were; the loop goes on with
\* the next row.
C7_FailingRowOnlyCountsAsFailure ==
    [][(pc = "loop" /\ idx < total_count
          /\ FailingRow(df[idx + 1], retain_smiles)) =>
            /\ fail_count' = fail_count + 1
            /\ success_count' = success_count
            /\ features' = features
            /\ smiles' = smiles
            /\ pc' = "loop"
            /\ idx' = idx + 1]_vars

C7_Witness ==
    /\ MolPath /\ pc = "loop" /\ retain_smiles /\ labels.some
    /\ idx = 2 /\ success_count = 1 /\ fail_count = 1
    /\ ExtractionError(df[2])
    /\ Len(smiles.v) = 1

\* C8: the k-th entry of every feature slot is a feature value of the k-th
\* successful row, and the k-th entry of the label slot is that row's label
\* list (after postprocess_label, if configured).
C8_FeaturesAndLabelsAligned ==
    (MolPath /\ features.some /\ pc \in {"loop", "returned"}) =>
        LET n == Len(features.v)
            nfeat == IF labels.some THEN n - 1 ELSE n
        IN \A k \in 1..success_count :
              LET row == df[SuccessfulRows[k]] IN
              /\ \A s \in 1..nfeat :
                    /\ k <= Len(features.v[s])
                    /\ features.v[s][k].kind = "feature"
                    /\ features.v[s][k].mol = Prepared(row).mol
              /\ labels.some =>
                    /\ k <= Len(features.v[n])
                    /\ features.v[n][k] =
                         [kind |-> "labels", vals |-> <<row.label>>,
                          post |-> postprocess_label.some]

\* C9: the number of slots is that of the first successful row (1 for a
\* single value, N for a tuple of N, one more with labels) for as long as
\* the call lasts, whatever the rows before or after it.
C9_SlotCountIsFirstSuccess ==
    (MolPath /\ pc \in {"loop", "returned", "raised"} /\ exc # "KeyError") =>
        /\ features.some <=> (success_count > 0)
        /\ features.some =>
              Len(features.v) =
                  RowArity(df[SuccessfulRows[1]]) + (IF labels.some THEN 1 ELSE 0)

C9_Witness ==
    /\ MolPath /\ pc = "returned" /\ labels.some
    /\ success_count = 2
    /\ RowArity(df[1]) = 1 /\ RowArity(df[2]) = 2
    /\ Len(features.v) = 2

\* C10: postprocess_fn, if configured, is called once, with the arrays as
\* separate arguments for a tuple and with the result as one argument
\* otherwise, and its output is what the dataset wraps; if not configured
\* the dataset wraps the result itself.  Without a MolPreprocessor no table
\* is read and no row processed: the result is what pp.process returned.
C10_ResultPackaging ==
    (pc = "returned") =>
        /\ dataset.some /\ result.some
        /\ postprocess_fn.some =>
              /\ post_calls = 1
              /\ dataset.v.value.kind = "postprocess_fn"
              /\ dataset.v.value.args =
                   (IF result.v.tuple THEN result.v.items
                    ELSE <<result.v.items[1]>>)
        /\ ~postprocess_fn.some =>
              /\ post_calls = 0
              /\ dataset.v.value = result.v
        /\ ~MolPath =>
              /\ result.v \in ProcessResults
              /\ df = <<>> /\ idx = 0 /\ features = None
              /\ success_count = 0 /\ fail_count = 0
        /\ MolPath => result.v = Assemble(features.v)

C10_Witness ==
    /\ pc = "returned" /\ ~MolPath /\ postprocess_fn.some
    /\ result.v.tuple /\ Len(result.v.items) = 2
    /\ post_calls = 1

(***************************************************************************)
(* C6 and C8 for tables whose successful rows all have the feature arity   *)
(* of the first one.                                                       *)
(***************************************************************************)

UniformArity ==
    \A i, j \in 1..Len(SuccessfulRows) :
        RowArity(df[SuccessfulRows[i]]) = RowArity(df[SuccessfulRows[j]])

AccumulatorsHaveSuccessCountEntries_UniformArity ==
    UniformArity => C6_AccumulatorsHaveSuccessCountEntries

FeaturesAndLabelsAligned_UniformArity ==
    UniformArity => C8_FeaturesAndLabelsAligned

\* The table CCO, not_a_molecule, c1ccccc1 with labels 1, 0, 1 (MaxRows at
\* least 3): two entries per slot, from rows 1 and 3.
ExampleTableParsed ==
    /\ MolPath /\ pc = "returned" /\ labels.some /\ ~postprocess_label.some
    /\ Len(df) = 3
    /\ df[1].smiles = "CCO" /\ df[2].smiles = "not_a_molecule"
    /\ df[3].smiles = "c1ccccc1"
    /\ success_count = 2 /\ fail_count = 1
    /\ features.v = << <<FeatureValue("ethanol", 0), FeatureValue("benzene", 0)>>,
                       <<RawLabel(<<"1">>), RawLabel(<<"1">>)>> >>

====
